---- MODULE Spec2Model ----
(***************************************************************************)
(* Batch submission engine of FormFlow (hubjoltd/monopolyu).               *)
(*                                                                         *)
(* Six state machines share this module:                                   *)
(*   Spec      the job store (server/storage.ts) driven by the HTTP        *)
(*             handlers and the background task processSubmissionBatches   *)
(*             (server/routes.ts);                                         *)
(*   JobsSpec  the same handlers and tasks with two jobs in the store;     *)
(*   MapSpec   the column-to-field mapper of submitToForm, applied tier by *)
(*             tier to bounded column lists and field catalogs;            *)
(*   FormSpec  field resolution, validateForm, on bounded rendered forms;  *)
(*   ExecSpec  one call of an executor (writeToSheet, or submitToForm in   *)
(*             its direct and its simulated variant) on one batch;         *)
(*   NormSpec  normalizeHeader on bounded strings.                         *)
(*                                                                         *)
(* JavaScript runs one segment of code at a time; an async function gives  *)
(* up control only at an await.  Each task action below is one such        *)
(* segment: the code from the resumption after one await up to the next    *)
(* await, and the program counter of a task names the await it is          *)
(* suspended at.  A storage method of MemStorage has no await inside: its  *)
(* effect happens at the call and its promise is already resolved, so the  *)
(* caller resumes from the microtask queue, which Node empties before it   *)
(* handles the next request, timer or network answer.  Those events are    *)
(* therefore taken only in states where no task is waiting on the store    *)
(* (Quiescent); these are the states a status poll can observe.            *)
(***************************************************************************)
EXTENDS Integers, Sequences, FiniteSets, TLC

(***************************************************************************)
(* Bounds of the model.                                                    *)
(***************************************************************************)
MaxJobs == 1
MaxTasks == 2
MaxRecords == 3
MaxBatchSize == 2
MaxCols == 3
MaxFields == 3

\* Iterations of one task that are tracked exactly.  A run with
\* batchSize >= 1 makes at most MaxRecords iterations, so only a run whose
\* batch count is Infinity gets here; its further iterations are folded onto
\* the last tracked one (see createBatch).
MaxIter == MaxRecords

VARIABLES
    submissions,        \* MemStorage.submissions: id -> Submission
    batches,            \* MemStorage.batches: id -> Batch
    tasks,              \* the invocations of processSubmissionBatches
    run,                \* history: per task, the batches it created, in order,
                        \* each with the slice of records it was cut for
    spreadsheetColumns, \* mapper input: Object.keys(data[0])
    formFields,         \* mapper input: the field catalog
    autoFieldMapping,   \* mapper: column -> selector
    unmatchedColumns,   \* mapper: columns no tier has matched yet
    tier,               \* mapper: the tier that runs next
    page,               \* resolution: the rendered form and the metadata answer
    resolution,         \* resolution: the state of validateForm
    strategy,           \* executor: which executor is called
    sourceData,         \* executor: the records of the batch
    columnMapping,      \* executor: the columns the mapping maps
    call,               \* executor: the state of the call
    headerInput,        \* normalizeHeader: the input
    normalized          \* normalizeHeader: the results so far

orchVars == <<submissions, batches, tasks, run>>
mapVars == <<spreadsheetColumns, formFields, autoFieldMapping, unmatchedColumns, tier>>
formVars == <<page, resolution>>
execVars == <<strategy, sourceData, columnMapping, call>>
normVars == <<headerInput, normalized>>
vars == <<submissions, batches, tasks, run,
          spreadsheetColumns, formFields, autoFieldMapping, unmatchedColumns, tier,
          page, resolution, strategy, sourceData, columnMapping, call,
          headerInput, normalized>>

\* What the steps of each machine leave alone.
notOrch == <<mapVars, formVars, execVars, normVars>>
notMap == <<orchVars, formVars, execVars, normVars>>
notForm == <<orchVars, mapVars, execVars, normVars>>
notExec == <<orchVars, mapVars, formVars, normVars>>
notNorm == <<orchVars, mapVars, formVars, execVars>>

Null == "null"

Min(a, b) == IF a <= b THEN a ELSE b

(***************************************************************************)
(* server/storage.ts: MemStorage.  Ids (randomUUID) are fresh; the model   *)
(* numbers the records of each map in creation order.  Timestamps are left *)
(* out: nothing reads them.                                                *)
(***************************************************************************)

\* The values insertSubmissionSchema accepts for the two integer columns:
\* any integer, here the small ones.  The schema does not relate
\* totalRecords to the length of data: the declared total may be the length
\* n, one less or one more.  data is a list of n records, modelled by their
\* positions 1..n.  The schema of the json column data takes any JSON
\* value, null included; null is kept as dataIsNull, with the empty list
\* in data, and a task reads dataIsNull before it reads anything of data.
AcceptedBatchSize == 0..MaxBatchSize
AcceptedTotalRecords(n) == {k \in 0..MaxRecords : k \in {n - 1, n, n + 1}}
RecordList(n) == [k \in 1..n |-> k]

createSubmission(insertSubmission) ==
    [totalRecords     |-> insertSubmission.totalRecords,
     batchSize        |-> insertSubmission.batchSize,
     data             |-> insertSubmission.data,
     dataIsNull       |-> insertSubmission.dataIsNull,
     processedRecords |-> 0,
     status           |-> "pending"]

updateSubmissionStatus(subs, id, status) ==
    IF id \in DOMAIN subs
        THEN [subs EXCEPT ![id].status = status]
        ELSE subs

\* Mutant of updateSubmissionProgress: the progress is written to every
\* job of the map.
updateSubmissionProgressOfAll(subs, id, processedRecords) ==
    [k \in DOMAIN subs |-> [subs[k] EXCEPT !.processedRecords = processedRecords]]

updateSubmissionProgress(subs, id, processedRecords) ==
    IF id \in DOMAIN subs
        THEN [subs EXCEPT ![id].processedRecords = processedRecords]
        ELSE subs

\* createBatch spreads the insert record and then sets status itself, so the
\* status the caller passes is overwritten by 'pending'.
createBatch(insertBatch) ==
    [submissionId |-> insertBatch.submissionId,
     batchNumber  |-> insertBatch.batchNumber,
     recordsCount |-> insertBatch.recordsCount,
     status       |-> "pending",
     errorMessage |-> Null]

\* Mutant of updateBatchStatus: the error message is not stored.
updateBatchStatusNoMessage(bs, id, status, errorMessage) ==
    IF id \in DOMAIN bs
        THEN [bs EXCEPT ![id].status = status, ![id].errorMessage = Null]
        ELSE bs

updateBatchStatus(bs, id, status, errorMessage) ==
    IF id \in DOMAIN bs
        THEN [bs EXCEPT ![id].status = status,
                        ![id].errorMessage = IF errorMessage = "" THEN Null ELSE errorMessage]
        ELSE bs

(***************************************************************************)
(* server/routes.ts: the arithmetic of processSubmissionBatches.           *)
(***************************************************************************)

\* Math.ceil(data.length / batchSize) on JavaScript numbers: n / 0 is
\* Infinity for n > 0 and NaN for n = 0.  The two are encoded as negative
\* numbers and only read through LoopCondition and NotLastBatch.
Infinity == -2
NaN == -1

\* Mutant of totalBatches: Math.floor in place of Math.ceil.
totalBatchesFloor(n, batchSize) ==
    IF batchSize = 0
        THEN (IF n = 0 THEN NaN ELSE Infinity)
        ELSE n \div batchSize

totalBatches(n, batchSize) ==
    IF batchSize = 0
        THEN (IF n = 0 THEN NaN ELSE Infinity)
        ELSE (n + batchSize - 1) \div batchSize

\* i < totalBatches
LoopCondition(i, tb) ==
    IF tb = Infinity THEN TRUE
    ELSE IF tb = NaN THEN FALSE
    ELSE i < tb

\* i < totalBatches - 1
NotLastBatch(i, tb) ==
    IF tb = Infinity THEN TRUE
    ELSE IF tb = NaN THEN FALSE
    ELSE i < tb - 1

startIndex(i, batchSize) == i * batchSize

endIndex(i, batchSize, n) == Min(startIndex(i, batchSize) + batchSize, n)

\* Array.prototype.slice(from, to) with 0 <= from, to: both are clamped to
\* the length, and an empty range gives the empty list.
Slice(data, from, to) ==
    LET f == Min(from, Len(data))
        e == Min(to, Len(data))
    IN  IF e <= f THEN <<>> ELSE SubSeq(data, f + 1, e)

batchDataOf(data, batchSize, i) ==
    Slice(data, startIndex(i, batchSize), endIndex(i, batchSize, Len(data)))

newProcessedRecords(i, batchSize) == (i + 1) * batchSize

(***************************************************************************)
(* Tasks.                                                                  *)
(***************************************************************************)
TaskIds == 1..MaxTasks

IdleTask == [pc |-> "idle", submissionId |-> 0, i |-> 0, batch |-> 0]

SubOf(t) == submissions[tasks[t].submissionId]

\* Task t is suspended at an await of a MemStorage call: it resumes from
\* the microtask queue.
MicroReady(t) ==
    tasks[t].pc \in {"getSubmission", "createBatch", "updateBatchCompleted",
                     "updateProgress", "updateBatchFailed", "finalStatus",
                     "rejected"}

\* The microtask queue is empty: the event loop takes the next event.
Quiescent == \A t \in TaskIds : ~MicroReady(t)

\* An id outside the store: the batch of a folded iteration.
Unstored == 0

\* Mutant of FinalStatus: the status the catch callback of the process
\* handler writes.
FinalStatusFailed == "failed"

\* The status written when the loop is over.
FinalStatus == "completed"

\* The store after createBatch, with the id of the new record.  Past MaxIter
\* iterations nothing more is stored and the id is one the store does not
\* hold, so that updateBatchStatus on it changes nothing.
StoreBatch(bs, insertBatch, tracked) ==
    IF tracked
        THEN [store |-> Append(bs, createBatch(insertBatch)), id |-> Len(bs) + 1]
        ELSE [store |-> bs, id |-> Unstored]

\* The head of the for loop for index i, up to the next await: either the
\* body starts (createBatch is called) or the loop is over and the final
\* status is written.
LoopHead(t, i) ==
    LET sid == tasks[t].submissionId
        sub == submissions[sid]
        n   == Len(sub.data)
        tb  == totalBatches(n, sub.batchSize)
        j   == Min(i, MaxIter)
        bd  == batchDataOf(sub.data, sub.batchSize, j)
        made == StoreBatch(batches,
                           [submissionId |-> sid, batchNumber |-> j + 1,
                            recordsCount |-> Len(bd), status |-> "processing"],
                           i < MaxIter)
    IN  IF LoopCondition(j, tb)
            THEN /\ batches' = made.store
                 /\ tasks' = [tasks EXCEPT ![t] = [pc |-> "createBatch", submissionId |-> sid,
                                                   i |-> j, batch |-> made.id]]
                 /\ run' = IF i < MaxIter
                               THEN [run EXCEPT ![t] = Append(@, [id |-> made.id, batchData |-> bd])]
                               ELSE run
                 /\ UNCHANGED submissions
            ELSE /\ submissions' = updateSubmissionStatus(submissions, sid, FinalStatus)
                 /\ tasks' = [tasks EXCEPT ![t].pc = "finalStatus", ![t].i = j]
                 /\ UNCHANGED <<batches, run>>

(***************************************************************************)
(* HTTP handlers.                                                          *)
(***************************************************************************)

\* POST /api/submissions: safeParse, then createSubmission.  A body the
\* schema rejects is answered 400 and changes nothing.
CreateSubmission(totalRecords, batchSize, n, dataIsNull) ==
    /\ Quiescent
    /\ dataIsNull => n = 0
    /\ submissions' = Append(submissions,
                             createSubmission([totalRecords |-> totalRecords,
                                               batchSize |-> batchSize,
                                               data |-> RecordList(n),
                                               dataIsNull |-> dataIsNull]))
    /\ UNCHANGED <<batches, tasks, run, notOrch>>

\* Mutant of startStatus: the handler leaves the status as it is.
startStatusLeftOut(subs, id) == subs

\* The status write of the process handler.
startStatus(subs, id) == updateSubmissionStatus(subs, id, "processing")

\* POST /api/submissions/:id/process.  An unknown id is answered 404 and
\* changes nothing.  The handler writes 'processing' and calls
\* processSubmissionBatches, which runs up to its first await
\* (getSubmission); then the handler answers (res.json), in the same
\* segment.  The fields the two lookups read never change after creation,
\* so the lookups take no step of their own.
StartProcessing(id, t) ==
    /\ Quiescent
    /\ id \in DOMAIN submissions
    /\ tasks[t].pc = "idle"
    /\ \A u \in TaskIds : u < t => tasks[u].pc # "idle"
    /\ submissions' = startStatus(submissions, id)
    /\ tasks' = [tasks EXCEPT ![t] = [pc |-> "getSubmission", submissionId |-> id,
                                      i |-> 0, batch |-> 0]]
    /\ UNCHANGED <<batches, run, notOrch>>

(***************************************************************************)
(* processSubmissionBatches, one action per resumption.                    *)
(***************************************************************************)

\* getSubmission has answered.  data.length is read: on null it throws a
\* TypeError, which rejects the promise of processSubmissionBatches, and
\* the catch callback of the process handler is queued.  Otherwise the
\* loop starts at i = 0.
AfterGetSubmission(t) ==
    /\ tasks[t].pc = "getSubmission"
    /\ IF SubOf(t).dataIsNull
           THEN /\ tasks' = [tasks EXCEPT ![t].pc = "rejected"]
                /\ UNCHANGED <<submissions, batches, run>>
           ELSE LoopHead(t, 0)
    /\ UNCHANGED notOrch

\* The catch callback of the process handler runs: it writes 'failed'.
\* MemStorage.updateSubmissionStatus has no await, so the write is made
\* within the call.
ProcessingRejected(t) ==
    /\ tasks[t].pc = "rejected"
    /\ submissions' = updateSubmissionStatus(submissions, tasks[t].submissionId, "failed")
    /\ tasks' = [tasks EXCEPT ![t].pc = "done"]
    /\ UNCHANGED <<batches, run, notOrch>>

\* createBatch has answered: writeToSheet is called and the task waits for
\* the remote service.
AfterCreateBatch(t) ==
    /\ tasks[t].pc = "createBatch"
    /\ tasks' = [tasks EXCEPT ![t].pc = "writeToSheet"]
    /\ UNCHANGED <<submissions, batches, run, notOrch>>

\* writeToSheet can only return when it has a row to write.
CanReturn(batchData) == batchData # <<>>

\* writeToSheet returns: the batch is marked completed.
WriteToSheetReturns(t) ==
    /\ Quiescent
    /\ tasks[t].pc = "writeToSheet"
    /\ CanReturn(batchDataOf(SubOf(t).data, SubOf(t).batchSize, tasks[t].i))
    /\ batches' = updateBatchStatus(batches, tasks[t].batch, "completed", "")
    /\ tasks' = [tasks EXCEPT ![t].pc = "updateBatchCompleted"]
    /\ UNCHANGED <<submissions, run, notOrch>>

\* The errors writeToSheet throws, by the message its catch block wraps:
\* either target resolution failed (getSheetHeaders, getAccessToken), or
\* the write itself did (no record of the batch gave a row, or the append
\* request was refused; the two are not told apart here).
ResolutionError == "Failed to write to response sheet: Failed to read response sheet"
WriteError == "Failed to write to response sheet: Failed to write to sheet"

WriteToSheetErrors == {ResolutionError, WriteError}

\* writeToSheet throws: the catch block marks the batch failed, with the
\* message of the error.
WriteToSheetThrows(t, error) ==
    /\ Quiescent
    /\ tasks[t].pc = "writeToSheet"
    /\ batches' = updateBatchStatus(batches, tasks[t].batch, "failed", error.message)
    /\ tasks' = [tasks EXCEPT ![t].pc = "updateBatchFailed"]
    /\ UNCHANGED <<submissions, run, notOrch>>

\* updateBatchStatus(completed) has answered: the progress is written.
AfterUpdateBatchCompleted(t) ==
    /\ tasks[t].pc = "updateBatchCompleted"
    /\ submissions' = updateSubmissionProgress(
                          submissions, tasks[t].submissionId,
                          Min(newProcessedRecords(tasks[t].i, SubOf(t).batchSize),
                              Len(SubOf(t).data)))
    /\ tasks' = [tasks EXCEPT ![t].pc = "updateProgress"]
    /\ UNCHANGED <<batches, run, notOrch>>

\* updateSubmissionProgress has answered: wait between batches, or, after
\* the last batch, leave the loop.
AfterUpdateProgress(t) ==
    /\ tasks[t].pc = "updateProgress"
    /\ IF NotLastBatch(tasks[t].i, totalBatches(Len(SubOf(t).data), SubOf(t).batchSize))
           THEN /\ tasks' = [tasks EXCEPT ![t].pc = "delay"]
                /\ UNCHANGED <<submissions, batches, run>>
           ELSE LoopHead(t, tasks[t].i + 1)
    /\ UNCHANGED notOrch

\* The timer of the delay has fired: next iteration.
AfterDelay(t) ==
    /\ Quiescent
    /\ tasks[t].pc = "delay"
    /\ LoopHead(t, tasks[t].i + 1)
    /\ UNCHANGED notOrch

\* updateBatchStatus(failed) has answered: next iteration, without delay.
AfterUpdateBatchFailed(t) ==
    /\ tasks[t].pc = "updateBatchFailed"
    /\ LoopHead(t, tasks[t].i + 1)
    /\ UNCHANGED notOrch

\* The final updateSubmissionStatus has answered: the task returns.
AfterFinalStatus(t) ==
    /\ tasks[t].pc = "finalStatus"
    /\ tasks' = [tasks EXCEPT ![t].pc = "done"]
    /\ UNCHANGED <<submissions, batches, run, notOrch>>

TaskStep(t) ==
    \/ AfterGetSubmission(t)
    \/ ProcessingRejected(t)
    \/ AfterCreateBatch(t)
    \/ WriteToSheetReturns(t)
    \/ \E message \in WriteToSheetErrors : WriteToSheetThrows(t, [message |-> message])
    \/ AfterUpdateBatchCompleted(t)
    \/ AfterUpdateProgress(t)
    \/ AfterDelay(t)
    \/ AfterUpdateBatchFailed(t)
    \/ AfterFinalStatus(t)

MapIdle ==
    /\ spreadsheetColumns = <<>>
    /\ formFields = <<>>
    /\ autoFieldMapping = <<>>
    /\ unmatchedColumns = <<>>
    /\ tier = "off"

OrchInit ==
    /\ submissions = <<>>
    /\ batches = <<>>
    /\ tasks = [t \in TaskIds |-> IdleTask]
    /\ run = [t \in TaskIds |-> <<>>]

NotCalled == [pc |-> "idle"]

FormIdle ==
    /\ page = Null
    /\ resolution = NotCalled

ExecIdle ==
    /\ strategy = Null
    /\ sourceData = <<>>
    /\ columnMapping = {}
    /\ call = NotCalled

NormIdle ==
    /\ headerInput = <<>>
    /\ normalized = <<>>

Init == OrchInit /\ MapIdle /\ FormIdle /\ ExecIdle /\ NormIdle

Next ==
    \/ /\ Len(submissions) < MaxJobs
       /\ \E n \in 0..MaxRecords, b \in AcceptedBatchSize :
              \E tr \in AcceptedTotalRecords(n), dataIsNull \in BOOLEAN :
                  CreateSubmission(tr, b, n, dataIsNull)
    \/ \E id \in 1..MaxJobs, t \in TaskIds : StartProcessing(id, t)
    \/ \E t \in TaskIds : TaskStep(t)

Spec == Init /\ [][Next]_vars

\* The event loop runs every segment that is ready, and every remote call
\* and timer answers.  A task waiting for such an answer is resumed once
\* the microtask queue is empty, which it is again and again: strong
\* fairness of each task's steps.
FairSpec == Spec /\ \A t \in TaskIds : SF_vars(TaskStep(t))

(***************************************************************************)
(* The column-to-field mapper of submitToForm.                             *)
(*                                                                         *)
(* A string is a sequence of one-character strings.  A field of the        *)
(* catalog is [label, selector]; the selector `[name="entry.N"]` is        *)
(* modelled by the number of the entry it names.  The mapping is a         *)
(* function from the mapped columns to selectors.                          *)
(***************************************************************************)
Lower == {"a", "b", "c"}
Upper == {"A", "B", "C"}
Digits == {"1"}
Whitespace == {" "}

\* String.prototype.toLowerCase, character by character.
toLowerCaseChar(ch) ==
    CASE ch = "A" -> "a"
      [] ch = "B" -> "b"
      [] ch = "C" -> "c"
      [] OTHER -> ch

toLowerCase(str) == [k \in 1..Len(str) |-> toLowerCaseChar(str[k])]

\* String.prototype.trim: whitespace is dropped at both ends only.
RECURSIVE trimStart(_)
trimStart(str) ==
    IF str # <<>> /\ Head(str) \in Whitespace THEN trimStart(Tail(str)) ELSE str

RECURSIVE trimEnd(_)
trimEnd(str) ==
    IF str # <<>> /\ str[Len(str)] \in Whitespace
        THEN trimEnd(SubSeq(str, 1, Len(str) - 1))
        ELSE str

trim(str) == trimEnd(trimStart(str))

\* replace(/[^a-z0-9]/g, '')
IsAlnum(ch) == ch \in Lower \cup Digits

stripNonAlnum(str) == SelectSeq(str, IsAlnum)

\* Mutant of normalizeHeader: the case is kept.
normalizeHeaderCaseKept(header) == stripNonAlnum(trim(header))

normalizeHeader(header) == stripNonAlnum(trim(toLowerCase(header)))

\* String.prototype.includes.
includes(str, search) ==
    \E k \in 1..(Len(str) - Len(search) + 1) :
        SubSeq(str, k, k + Len(search) - 1) = search

\* Array.prototype.indexOf, 0-based, -1 when absent.
indexOf(list, x) ==
    IF \E k \in 1..Len(list) : list[k] = x
        THEN (CHOOSE k \in 1..Len(list) : list[k] = x /\ \A m \in 1..(k - 1) : list[m] # x) - 1
        ELSE -1

\* Mutant of splice: the matched column stays in the list.
spliceForgotten(list, start) == list

\* list.splice(start, 1): the element at start is removed; a negative start
\* counts from the end.
splice(list, start) ==
    LET at == IF start < 0 THEN Len(list) + start + 1 ELSE start + 1
    IN  IF at < 1 \/ at > Len(list)
            THEN list
            ELSE SubSeq(list, 1, at - 1) \o SubSeq(list, at + 1, Len(list))

\* Object.values(autoFieldMapping)
Values(mapping) == {mapping[c] : c \in DOMAIN mapping}

\* autoFieldMapping[column] = selector
Assign(mapping, column, selector) ==
    [c \in (DOMAIN mapping) \cup {column} |->
        IF c = column THEN selector ELSE mapping[c]]

\* Mutant of ExactMatch: the first tier already accepts a label that
\* contains the column name.
ExactMatchLoose(normalizedColumn, normalizedLabel) ==
    \E k \in 1..(Len(normalizedLabel) - Len(normalizedColumn) + 1) :
        SubSeq(normalizedLabel, k, k + Len(normalizedColumn) - 1) = normalizedColumn

\* The condition of the first tier.
ExactMatch(normalizedColumn, normalizedLabel) == normalizedColumn = normalizedLabel

\* The condition of the second tier.
PartialMatch(normalizedColumn, normalizedLabel) ==
    \/ includes(normalizedLabel, normalizedColumn)
    \/ includes(normalizedColumn, normalizedLabel)

\* The index of the field at which the inner loop of the first tier breaks,
\* 0 when it runs to the end.
FirstExact(column, fields) ==
    LET hits == {k \in 1..Len(fields) :
                    ExactMatch(normalizeHeader(column), normalizeHeader(fields[k].label))}
    IN  IF hits = {} THEN 0 ELSE CHOOSE k \in hits : \A m \in hits : k <= m

\* The same for the second tier, which skips the fields whose selector is
\* already a value of the mapping.
FirstPartial(column, fields, mapping) ==
    LET hits == {k \in 1..Len(fields) :
                    /\ fields[k].selector \notin Values(mapping)
                    /\ PartialMatch(normalizeHeader(column), normalizeHeader(fields[k].label))}
    IN  IF hits = {} THEN 0 ELSE CHOOSE k \in hits : \A m \in hits : k <= m

\* First try: exact label matching.  st is [mapping, unmatched].
RECURSIVE ExactLoop(_, _, _)
ExactLoop(columns, fields, st) ==
    IF columns = <<>> THEN st
    ELSE LET column == Head(columns)
             k == FirstExact(column, fields)
         IN  ExactLoop(Tail(columns), fields,
                 IF k # 0
                     THEN [mapping |-> Assign(st.mapping, column, fields[k].selector),
                           unmatched |-> st.unmatched]
                     ELSE [mapping |-> st.mapping,
                           unmatched |-> Append(st.unmatched, column)])

\* Second try: partial matching, over a copy of the unmatched columns; a
\* column that matches is spliced out of the list itself.
RECURSIVE PartialLoop(_, _, _)
PartialLoop(columns, fields, st) ==
    IF columns = <<>> THEN st
    ELSE LET column == Head(columns)
             k == IF column \in DOMAIN st.mapping
                      THEN 0
                      ELSE FirstPartial(column, fields, st.mapping)
         IN  PartialLoop(Tail(columns), fields,
                 IF k # 0
                     THEN [mapping |-> Assign(st.mapping, column, fields[k].selector),
                           unmatched |-> splice(st.unmatched, indexOf(st.unmatched, column))]
                     ELSE st)

\* formFields.filter(f => !Object.values(autoFieldMapping).includes(f.selector))
unmappedFields(fields, mapping) ==
    LET Free(f) == f.selector \notin Values(mapping)
    IN  SelectSeq(fields, Free)

\* Third try: the remaining columns by position.
RECURSIVE PositionalLoop(_, _, _, _)
PositionalLoop(i, columns, fields, mapping) ==
    IF i < Len(columns) /\ i < Len(fields)
        THEN PositionalLoop(i + 1, columns, fields,
                            Assign(mapping, columns[i + 1], fields[i + 1].selector))
        ELSE mapping

\* The inputs: column lists are the keys of a record, so they hold no
\* string twice; a catalog may name one entry twice (two inputs with the
\* same name).  Entries are numbered in order of first appearance.
ColumnNames ==
    {<<"a">>, <<"A", " ">>, <<"a", "-", "b">>, <<"c">>, <<"C", "-">>}

FieldLabels == {<<"A">>, <<"b", " ", "a">>, <<"b">>}

ColumnLists ==
    UNION {{cols \in [1..len -> ColumnNames] :
                \A j, k \in 1..len : j # k => cols[j] # cols[k]} : len \in 0..MaxCols}

FirstAppearance(sels) ==
    \A k \in 1..Len(sels) :
        sels[k] <= 1 + Cardinality({sels[m] : m \in 1..(k - 1)})

Catalogs ==
    UNION {{[k \in 1..len |-> [label |-> labels[k], selector |-> sels[k]]] :
                labels \in [1..len -> FieldLabels],
                sels \in {q \in [1..len -> 1..len] : FirstAppearance(q)}} :
           len \in 0..MaxFields}

ExactTier ==
    /\ tier = "exact"
    /\ LET st == ExactLoop(spreadsheetColumns, formFields,
                           [mapping |-> <<>>, unmatched |-> <<>>])
       IN  /\ autoFieldMapping' = st.mapping
           /\ unmatchedColumns' = st.unmatched
    /\ tier' = "partial"
    /\ UNCHANGED <<spreadsheetColumns, formFields, notMap>>

PartialTier ==
    /\ tier = "partial"
    /\ LET st == PartialLoop(unmatchedColumns, formFields,
                             [mapping |-> autoFieldMapping, unmatched |-> unmatchedColumns])
       IN  /\ autoFieldMapping' = st.mapping
           /\ unmatchedColumns' = st.unmatched
    /\ tier' = "positional"
    /\ UNCHANGED <<spreadsheetColumns, formFields, notMap>>

PositionalTier ==
    /\ tier = "positional"
    /\ autoFieldMapping' =
           PositionalLoop(0, unmatchedColumns,
                          unmappedFields(formFields, autoFieldMapping), autoFieldMapping)
    /\ tier' = "done"
    /\ UNCHANGED <<spreadsheetColumns, formFields, unmatchedColumns, notMap>>

MapInit ==
    /\ OrchInit /\ FormIdle /\ ExecIdle /\ NormIdle
    /\ spreadsheetColumns \in ColumnLists
    /\ formFields \in Catalogs
    /\ autoFieldMapping = <<>>
    /\ unmatchedColumns = <<>>
    /\ tier = "exact"

MapNext == ExactTier \/ PartialTier \/ PositionalTier

MapSpec == MapInit /\ [][MapNext]_vars

(***************************************************************************)
(* Field resolution: validateForm of services/google-forms.ts.             *)
(*                                                                         *)
(* The rendered form is the list of the input elements the scan keeps,     *)
(* each with the entry id and the label the scan reads off it; the         *)
(* metadata service answers with the titles of the form's questions, or    *)
(* not at all.  An entry id `entry.N` is modelled by a number.             *)
(***************************************************************************)
EntryIds == 1..2
ElementLabels == {<<"A">>, <<"b">>}
ItemTitles == {<<"A">>, <<"a">>, <<"b">>}
MaxItems == 2

\* The ids Math.random gives the placeholders: nothing keeps two of them
\* apart.
PlaceholderIds == {101, 102}

RenderedElements ==
    UNION {[1..len -> [entryId : EntryIds, label : ElementLabels]] : len \in 0..MaxFields}

ApiItems == UNION {[1..len -> ItemTitles] : len \in 0..MaxItems}

\* apiFields.set(item.title.toLowerCase().trim(), {title: item.title, ...}):
\* a Map keeps its keys in the order of their first insertion; setting a
\* key again replaces its value.
MapSet(entries, key, value) ==
    IF \E k \in 1..Len(entries) : entries[k].key = key
        THEN [k \in 1..Len(entries) |->
                 IF entries[k].key = key THEN [key |-> key, data |-> value] ELSE entries[k]]
        ELSE Append(entries, [key |-> key, data |-> value])

RECURSIVE apiFieldsOf(_, _)
apiFieldsOf(items, entries) ==
    IF items = <<>> THEN entries
    ELSE apiFieldsOf(Tail(items),
                     MapSet(entries, trim(toLowerCase(Head(items))), [title |-> Head(items)]))

\* The placeholders pushed for the API fields when the scan found nothing.
placeholderFields(apiFields, ids) ==
    [k \in 1..Len(apiFields) |-> [entryId |-> ids[k], label |-> apiFields[k].key]]

\* The position of the API field whose normalized title equals the
\* normalized label, the first in the order of the Map; 0 when there is
\* none.
matchingApiField(apiFields, label) ==
    LET hits == {k \in 1..Len(apiFields) :
                    normalizeHeader(apiFields[k].key) = normalizeHeader(label)}
    IN  IF hits = {} THEN 0 ELSE CHOOSE k \in hits : \A m \in hits : k <= m

\* Merge API data with HTML entry ids.
mergeFields(htmlFields, apiFields) ==
    [k \in 1..Len(htmlFields) |->
        LET apiField == matchingApiField(apiFields, htmlFields[k].label)
        IN  [id |-> htmlFields[k].entryId,
             title |-> IF apiField # 0
                           THEN apiFields[apiField].data.title
                           ELSE htmlFields[k].label,
             entryId |-> htmlFields[k].entryId]]

\* validateForm is called: the URL is matched, and the metadata request is
\* sent.  A URL that does not match is answered with the error at once.
ValidateFormCalled ==
    /\ resolution.pc = "idle"
    /\ resolution' = IF page.urlMatches
                         THEN [pc |-> "api", apiFields |-> <<>>, browser |-> FALSE,
                               fields |-> <<>>]
                         ELSE [pc |-> "thrown", apiFields |-> <<>>, browser |-> FALSE,
                               fields |-> <<>>]
    /\ UNCHANGED <<page, notForm>>

\* The metadata request is over.  Without an answer (no token, a refusal,
\* an exception) apiFields stays empty; the browser is launched next.
ApiAnswered(ok) ==
    /\ resolution.pc = "api"
    /\ resolution' = [resolution EXCEPT
                          !.pc = "scan",
                          !.browser = TRUE,
                          !.apiFields = IF ok THEN apiFieldsOf(page.items, <<>>) ELSE <<>>]
    /\ UNCHANGED <<page, notForm>>

\* The browser has rendered the form and the scan has run; the browser is
\* closed, the placeholders are made if the scan found nothing, the fields
\* are merged and the catalog is returned.
ScanReturns(ids) ==
    /\ resolution.pc = "scan"
    /\ LET scanned == page.elements
           htmlFields == IF scanned = <<>> /\ resolution.apiFields # <<>>
                             THEN placeholderFields(resolution.apiFields, ids)
                             ELSE scanned
       IN  resolution' = [resolution EXCEPT
                              !.pc = "returned",
                              !.browser = FALSE,
                              !.fields = mergeFields(htmlFields, resolution.apiFields)]
    /\ UNCHANGED <<page, notForm>>

\* The launch, the navigation or the scan throws: the catch block closes
\* the browser and rethrows.
ScanThrows ==
    /\ resolution.pc = "scan"
    /\ resolution' = [resolution EXCEPT !.pc = "thrown", !.browser = FALSE]
    /\ UNCHANGED <<page, notForm>>

FormInit ==
    /\ OrchInit /\ MapIdle /\ ExecIdle /\ NormIdle
    /\ page \in [urlMatches : BOOLEAN, elements : RenderedElements, items : ApiItems]
    /\ resolution = NotCalled

FormNext ==
    \/ ValidateFormCalled
    \/ \E ok \in BOOLEAN : ApiAnswered(ok)
    \/ \E ids \in [1..MaxItems -> PlaceholderIds] : ScanReturns(ids)
    \/ ScanThrows

FormSpec == FormInit /\ [][FormNext]_vars

(***************************************************************************)
(* One call of an executor on the records of one batch, and what the       *)
(* caller stores for the batch when the call is over.                      *)
(*                                                                         *)
(*   "sheet"      writeToSheet of services/sheets-writer.ts;               *)
(*   "direct"     submitToForm of services/google-forms.ts, which posts    *)
(*                each record to the form's endpoint;                      *)
(*   "simulated"  submitToForm of the browser variant, which opens a page  *)
(*                per record and types the values in.                      *)
(*                                                                         *)
(* A record is a function from the columns it has to their values; the     *)
(* mapping is given by the set of the columns it maps.  Records are named  *)
(* by their row number i + 1.                                              *)
(***************************************************************************)
Strategies == {"sheet", "direct", "simulated"}
SourceColumns == {"a", "b"}
CellValues == {"", "x"}

Records == UNION {[cols -> CellValues] : cols \in SUBSET SourceColumns}

BatchDatas == UNION {[1..len -> Records] : len \in 0..MaxBatchSize}

\* The columns a mapping is made for: Object.keys(data[0]).
mappableColumns(data) == IF data = <<>> THEN {} ELSE DOMAIN data[1]

\* The entries of the record the mapping has a destination for.
mappedEntries(record) == {c \in DOMAIN record : c \in columnMapping}

\* value !== null && value !== undefined && value !== ''
nonEmptyEntries(record) == {c \in mappedEntries(record) : record[c] # ""}

\* fieldsFilled of writeToSheet: one per mapped entry, whatever its value
\* (row[destIndex] = value || '').
sheetFieldsFilled(record) == Cardinality(mappedEntries(record))

\* fieldsFilled of the direct submitToForm: one per mapped entry with a
\* value.
directFieldsFilled(record) == Cardinality(nonEmptyEntries(record))

\* The errors an executor throws, after the wrapping of its catch block.
ResolveFailed == "target resolution failed"
NoRowsToWrite == "No rows to write. Check column name matching."
AppendRefused == "Failed to write to sheet"
AllFailed == "All submissions failed."
SomeFailed == "N of M submissions failed."
NoneSubmitted == "No records were successfully submitted."
NewPageFailed == "browser.newPage failed"

EnteredCall ==
    [pc |-> "resolve", i |-> 0, successCount |-> 0, failCount |-> 0,
     errors |-> <<>>, offered |-> <<>>, sent |-> <<>>, pages |-> 0,
     browser |-> FALSE, continue |-> FALSE, error |-> Null, batchStatus |-> "pending"]

\* The call throws: the browser, if any, is closed (finally), and the
\* caller's catch block stores the batch as failed.
Thrown(c, error) ==
    [c EXCEPT !.pc = "thrown", !.error = error, !.browser = FALSE, !.pages = 0,
              !.batchStatus = "failed"]

\* The call returns: the caller stores the batch as completed.
Returned(c) ==
    [c EXCEPT !.pc = "returned", !.browser = FALSE, !.pages = 0,
              !.batchStatus = "completed"]

\* errors.push(`Row ${i + 1}: ...`); failCount++
Failed(c, row) ==
    [c EXCEPT !.failCount = @ + 1, !.errors = Append(@, row)]

\* The caller has created the batch record and calls the executor, which
\* starts with resolving the target.
ExecutorCalled ==
    /\ call.pc = "idle"
    /\ call' = EnteredCall
    /\ UNCHANGED <<strategy, sourceData, columnMapping, notExec>>

\* Resolution fails (the sheet or the form cannot be read, there is no
\* token, the browser does not start, the form shows no field).
ResolutionThrows ==
    /\ call.pc = "resolve"
    /\ call' = Thrown(call, ResolveFailed)
    /\ UNCHANGED <<strategy, sourceData, columnMapping, notExec>>

\* writeToSheet builds its rows without an await: every record is looked
\* at, and the records with fieldsFilled > 0 give a row.
RECURSIVE buildRows(_, _)
buildRows(c, i) ==
    IF i >= Len(sourceData) THEN c
    ELSE LET seen == [c EXCEPT !.offered = Append(@, i + 1), !.i = i]
         IN  buildRows(IF sheetFieldsFilled(sourceData[i + 1]) = 0
                           THEN Failed(seen, i + 1)
                           ELSE [seen EXCEPT !.sent = Append(@, i + 1),
                                             !.successCount = @ + 1],
                       i + 1)

\* getSheetHeaders and getAccessToken have answered: the rows are built,
\* and unless there is none the append request is sent with them.
SheetResolved ==
    /\ strategy = "sheet"
    /\ call.pc = "resolve"
    /\ LET built == buildRows(call, 0)
       IN  call' = IF built.sent = <<>>
                       THEN Thrown(built, NoRowsToWrite)
                       ELSE [built EXCEPT !.pc = "append"]
    /\ UNCHANGED <<strategy, sourceData, columnMapping, notExec>>

SheetAppended(ok) ==
    /\ strategy = "sheet"
    /\ call.pc = "append"
    /\ call' = IF ok THEN Returned(call) ELSE Thrown(call, AppendRefused)
    /\ UNCHANGED <<strategy, sourceData, columnMapping, notExec>>

\* The end of the direct submitToForm.
directEnd(c) ==
    IF c.failCount = Len(sourceData) THEN Thrown(c, AllFailed)
    ELSE IF c.failCount > 0 THEN Thrown(c, SomeFailed)
    ELSE Returned(c)

\* The loop of the direct submitToForm from index i up to its next await:
\* records with nothing to fill are counted as failed and passed over
\* (continue) until one is posted or the loop ends.
RECURSIVE directLoop(_, _)
directLoop(c, i) ==
    IF i >= Len(sourceData) THEN directEnd(c)
    ELSE LET seen == [c EXCEPT !.offered = Append(@, i + 1), !.i = i]
         IN  IF directFieldsFilled(sourceData[i + 1]) = 0
                 THEN directLoop(Failed(seen, i + 1), i + 1)
                 ELSE [seen EXCEPT !.pc = "fetch", !.sent = Append(@, i + 1)]

\* validateForm has returned and the mapping is made.
DirectResolved ==
    /\ strategy = "direct"
    /\ call.pc = "resolve"
    /\ call' = directLoop(call, 0)
    /\ UNCHANGED <<strategy, sourceData, columnMapping, notExec>>

\* The post of record i is over: the form accepted it, answered something
\* else, or fetch threw (caught inside the loop).
DirectFetched(outcome) ==
    /\ strategy = "direct"
    /\ call.pc = "fetch"
    /\ LET counted == IF outcome = "accepted"
                          THEN [call EXCEPT !.successCount = @ + 1]
                          ELSE Failed(call, call.i + 1)
       IN  call' = IF call.i < Len(sourceData) - 1
                       THEN [counted EXCEPT !.pc = "delay"]
                       ELSE directLoop(counted, call.i + 1)
    /\ UNCHANGED <<strategy, sourceData, columnMapping, notExec>>

DirectDelayed ==
    /\ strategy = "direct"
    /\ call.pc = "delay"
    /\ call' = directLoop(call, call.i + 1)
    /\ UNCHANGED <<strategy, sourceData, columnMapping, notExec>>

\* The loop head of the simulated submitToForm for index i: a page is asked
\* for, or the loop is over.
simLoop(c, i) ==
    IF i >= Len(sourceData)
        THEN (IF c.successCount = 0 /\ Len(sourceData) > 0
                  THEN Thrown(c, NoneSubmitted)
                  ELSE Returned(c))
        ELSE [c EXCEPT !.pc = "newPage", !.i = i]

\* The browser runs and the scan found fields; the mapping is made.
SimResolved ==
    /\ strategy = "simulated"
    /\ call.pc = "resolve"
    /\ call' = simLoop([call EXCEPT !.browser = TRUE], 0)
    /\ UNCHANGED <<strategy, sourceData, columnMapping, notExec>>

\* browser.newPage() answers.  The call stands before the try block of the
\* record: when it throws, the error leaves the loop.
SimNewPage(ok) ==
    /\ strategy = "simulated"
    /\ call.pc = "newPage"
    /\ call' = IF ok
                   THEN [call EXCEPT !.pc = "record", !.pages = @ + 1,
                                     !.offered = Append(@, call.i + 1)]
                   ELSE Thrown(call, NewPageFailed)
    /\ UNCHANGED <<strategy, sourceData, columnMapping, notExec>>

\* The page is worked on up to the point where it is closed.  A mapped
\* value is typed in when its element is found; with none typed in the
\* record is passed over, otherwise submission is tried.  An exception
\* on the way (navigation, evaluation) is caught by the record's catch
\* block, which closes the page, ignoring a failure of that.
SimRecord(outcome, closed) ==
    /\ strategy = "simulated"
    /\ call.pc = "record"
    /\ LET row == call.i + 1
           fillable == nonEmptyEntries(sourceData[row])
       IN  \/ /\ outcome = "threw"
              /\ call' = simLoop([Failed(call, row) EXCEPT
                                      !.pages = IF closed THEN @ - 1 ELSE @],
                                  call.i + 1)
           \/ /\ outcome = "noFieldsFilled"
              /\ closed
              /\ call' = [Failed(call, row) EXCEPT !.pc = "close", !.continue = TRUE]
           \/ /\ outcome = "noSubmitControl"
              /\ closed
              /\ fillable # {}
              /\ call' = [Failed(call, row) EXCEPT !.pc = "close", !.continue = TRUE]
           \/ /\ outcome = "confirmed"
              /\ closed
              /\ fillable # {}
              /\ call' = [call EXCEPT !.pc = "close", !.continue = FALSE,
                                      !.sent = Append(@, row),
                                      !.successCount = @ + 1]
           \/ /\ outcome = "notConfirmed"
              /\ closed
              /\ fillable # {}
              /\ call' = [Failed(call, row) EXCEPT !.pc = "close", !.continue = FALSE,
                                                   !.sent = Append(@, row)]
    /\ UNCHANGED <<strategy, sourceData, columnMapping, notExec>>

\* page.close() of the try block answers.  When it throws, the record's
\* catch block counts the record as failed (again) and closes the page,
\* ignoring a failure of that; the loop goes on without the delay.
SimClosed(ok, closed) ==
    /\ strategy = "simulated"
    /\ call.pc = "close"
    /\ call' = IF ok
                   THEN (LET c == [call EXCEPT !.pages = @ - 1]
                         IN  IF ~call.continue /\ call.i < Len(sourceData) - 1
                                 THEN [c EXCEPT !.pc = "delay"]
                                 ELSE simLoop(c, call.i + 1))
                   ELSE simLoop([Failed(call, call.i + 1) EXCEPT
                                    !.pages = IF closed THEN @ - 1 ELSE @],
                                call.i + 1)
    /\ (ok => closed)
    /\ UNCHANGED <<strategy, sourceData, columnMapping, notExec>>

SimDelayed ==
    /\ strategy = "simulated"
    /\ call.pc = "delay"
    /\ call' = simLoop(call, call.i + 1)
    /\ UNCHANGED <<strategy, sourceData, columnMapping, notExec>>

RecordOutcomes ==
    {"threw", "noFieldsFilled", "noSubmitControl", "confirmed", "notConfirmed"}

ExecInit ==
    /\ OrchInit /\ MapIdle /\ FormIdle /\ NormIdle
    /\ strategy \in Strategies
    /\ sourceData \in BatchDatas
    /\ columnMapping \in SUBSET mappableColumns(sourceData)
    /\ call = NotCalled

ExecNext ==
    \/ ExecutorCalled
    \/ ResolutionThrows
    \/ SheetResolved
    \/ \E ok \in BOOLEAN : SheetAppended(ok)
    \/ DirectResolved
    \/ \E outcome \in {"accepted", "rejected", "threw"} : DirectFetched(outcome)
    \/ DirectDelayed
    \/ SimResolved
    \/ \E ok \in BOOLEAN : SimNewPage(ok)
    \/ \E outcome \in RecordOutcomes, closed \in BOOLEAN : SimRecord(outcome, closed)
    \/ \E ok, closed \in BOOLEAN : SimClosed(ok, closed)
    \/ SimDelayed

ExecSpec == ExecInit /\ [][ExecNext]_vars

(***************************************************************************)
(* normalizeHeader on its own: applied to a bounded string, then to its    *)
(* own result.                                                             *)
(***************************************************************************)
MaxLen == 3

HeaderChars == {"b", "B", "1", " ", "-"}

Headers == UNION {[1..len -> HeaderChars] : len \in 0..MaxLen}

NormalizeOnce ==
    /\ normalized = <<>>
    /\ normalized' = <<normalizeHeader(headerInput)>>
    /\ UNCHANGED <<headerInput, notNorm>>

NormalizeAgain ==
    /\ Len(normalized) = 1
    /\ normalized' = Append(normalized, normalizeHeader(normalized[1]))
    /\ UNCHANGED <<headerInput, notNorm>>

NormInit ==
    /\ OrchInit /\ MapIdle /\ FormIdle /\ ExecIdle
    /\ headerInput \in Headers
    /\ normalized = <<>>

NormNext == NormalizeOnce \/ NormalizeAgain

NormSpec == NormInit /\ [][NormNext]_vars

(***************************************************************************)
(* Several jobs at once: the handlers and the tasks of Spec, with up to    *)
(* MaxConcurrentJobs jobs in the store and the smaller bodies (data null   *)
(* or n records, n <= MaxJobRecords, totalRecords = n, batchSize >= 1).    *)
(***************************************************************************)
MaxConcurrentJobs == 2
MaxJobRecords == 2

JobsNext ==
    \/ /\ Len(submissions) < MaxConcurrentJobs
       /\ \E n \in 0..MaxJobRecords, b \in 1..MaxBatchSize, dataIsNull \in BOOLEAN :
              CreateSubmission(n, b, n, dataIsNull)
    \/ \E id \in 1..MaxConcurrentJobs, t \in TaskIds : StartProcessing(id, t)
    \/ \E t \in TaskIds : TaskStep(t)

JobsSpec == Init /\ [][JobsNext]_vars

(***************************************************************************)
(* Notions the claims about the job store are stated in.                   *)
(***************************************************************************)
Started(t) == tasks[t].pc # "idle"

\* The tasks started for job id.
TasksOf(id) == {t \in TaskIds : Started(t) /\ tasks[t].submissionId = id}

\* Task t is the only processing run its job has had.
SoleRun(t) == TasksOf(tasks[t].submissionId) = {t}

\* ceil(n / b) for b >= 1, as the least c with c * b >= n.
CeilDiv(n, b) == CHOOSE c \in 0..n : c * b >= n /\ \A d \in 0..n : d * b >= n => c <= d

\* The number of batches whose iteration of the loop body is over in task
\* t, in a quiescent state: the task waits for writeToSheet on batch i+1,
\* waits out the delay after batch i+1, or has left the loop.
Concluded(t) ==
    IF tasks[t].pc = "delay" THEN tasks[t].i + 1 ELSE tasks[t].i

InLoopBody(t) ==
    tasks[t].pc \in {"createBatch", "writeToSheet", "updateBatchCompleted",
                     "updateProgress", "delay", "updateBatchFailed"}

Finished(t) == tasks[t].pc \in {"finalStatus", "done"}

BatchesOf(id) == {k \in DOMAIN batches : batches[k].submissionId = id}

RECURSIVE SumRecordsCount(_)
SumRecordsCount(entries) ==
    IF entries = <<>> THEN 0
    ELSE batches[Head(entries).id].recordsCount + SumRecordsCount(Tail(entries))

(***************************************************************************)
(* C1.  For a job with n records and batchSize b >= 1 that has had one     *)
(* processing run: once the attempt of batch i is over, whether the batch  *)
(* ended completed or failed, the stored processedRecords is min(i*b, n),  *)
(* in every state a poll can observe.  Stated as the claim states it; the  *)
(* code leaves processedRecords alone when the batch fails.                *)
(***************************************************************************)
C1_ProgressAfterEveryAttempt ==
    \A t \in TaskIds :
        (Quiescent /\ Started(t) /\ SoleRun(t) /\ SubOf(t).batchSize >= 1
           /\ Concluded(t) >= 1)
            => SubOf(t).processedRecords
                 = Min(Concluded(t) * SubOf(t).batchSize, Len(SubOf(t).data))

(***************************************************************************)
(* C2.  The stored processedRecords of a job never decreases, whatever the *)
(* requests, a second start-processing request for the same job included.  *)
(***************************************************************************)
C2_ProgressNeverDecreases ==
    [][\A id \in DOMAIN submissions :
           submissions'[id].processedRecords >= submissions[id].processedRecords]_vars

(***************************************************************************)
(* C3.  For every stored job, 0 <= processedRecords <= totalRecords, the   *)
(* job's stored totalRecords field.                                        *)
(***************************************************************************)
C3_ProgressWithinTotal ==
    \A id \in DOMAIN submissions :
        /\ 0 <= submissions[id].processedRecords
        /\ submissions[id].processedRecords <= submissions[id].totalRecords

(***************************************************************************)
(* C4.  Once a processing task is executing batches, its job eventually    *)
(* has status completed (under FairSpec: every ready segment runs and      *)
(* every remote call returns or throws).                                   *)
(***************************************************************************)
C4_EventuallyCompleted ==
    \A t \in TaskIds :
        InLoopBody(t) ~> (Started(t) /\ SubOf(t).status = "completed")

(***************************************************************************)
(* C5.  Whenever a poll can see a job's status completed, every batch has  *)
(* been created and its attempt is over: every batch number                *)
(* 1..ceil(n/batchSize) has a stored record, and every stored batch of the *)
(* job is completed or failed.                                             *)
(***************************************************************************)
C5_CompletedMeansAllAttempted ==
    \A id \in DOMAIN submissions :
        (Quiescent /\ submissions[id].status = "completed") =>
            /\ \A k \in BatchesOf(id) : batches[k].status \in {"completed", "failed"}
            /\ submissions[id].batchSize >= 1 =>
                   \A num \in 1..CeilDiv(Len(submissions[id].data), submissions[id].batchSize) :
                       \E k \in BatchesOf(id) : batches[k].batchNumber = num

(***************************************************************************)
(* C6.  The status of a job changes only along pending -> processing,      *)
(* processing -> completed and processing -> failed.                       *)
(***************************************************************************)
StatusEdges ==
    {<<"pending", "processing">>, <<"processing", "completed">>, <<"processing", "failed">>}

C6_StatusStateMachine ==
    [][\A id \in DOMAIN submissions :
           \/ submissions'[id].status = submissions[id].status
           \/ <<submissions[id].status, submissions'[id].status>> \in StatusEdges]_vars

(***************************************************************************)
(* C7.  For a job with n records and batchSize b >= 1, one processing run  *)
(* creates its batches in the order 1, 2, ...; batch k is cut for the      *)
(* records (k-1)*b+1 .. min(k*b, n) in their order, and is stored with     *)
(* recordsCount min(b, n-(k-1)*b); when the run is over there are          *)
(* ceil(n/b) of them and their recordsCount values sum to n.  Every stored *)
(* batch record was created by exactly one run.                            *)
(***************************************************************************)
C7_BatchesPartitionRecords ==
    /\ \A id \in DOMAIN batches :
           Cardinality({<<t, k>> \in TaskIds \X (1..MaxIter) :
                           k <= Len(run[t]) /\ run[t][k].id = id}) = 1
    /\ \A t \in TaskIds :
        (Started(t) /\ SubOf(t).batchSize >= 1) =>
            LET n == Len(SubOf(t).data)
                b == SubOf(t).batchSize
                made == run[t]
            IN  /\ \A k \in 1..Len(made) :
                       /\ made[k].id \in DOMAIN batches
                       /\ batches[made[k].id].submissionId = tasks[t].submissionId
                       /\ batches[made[k].id].batchNumber = k
                       /\ batches[made[k].id].recordsCount = Min(b, n - (k - 1) * b)
                       /\ made[k].batchData
                            = [j \in 1..(Min(k * b, n) - (k - 1) * b) |->
                                   SubOf(t).data[(k - 1) * b + j]]
                       /\ k > 1 => made[k - 1].id < made[k].id
                /\ Len(made) <= CeilDiv(n, b)
                /\ Finished(t) =>
                       /\ Len(made) = CeilDiv(n, b)
                       /\ SumRecordsCount(made) = n

\* A run over 3 records with batchSize 2 is over: batches of sizes 2 and 1.
C7_Witness ==
    \E t \in TaskIds :
        /\ Finished(t)
        /\ Len(SubOf(t).data) = 3
        /\ SubOf(t).batchSize = 2
        /\ Len(run[t]) = 2
        /\ batches[run[t][1].id].recordsCount = 2
        /\ batches[run[t][2].id].recordsCount = 1

(***************************************************************************)
(* Notions the claims about the mapper are stated in.                      *)
(***************************************************************************)
\* The mapping as submitToForm of services/google-forms.ts builds it (two
\* tiers) is the one reached after the second tier; the simulated strategy
\* adds the third.
AfterPartialTier == tier \in {"positional", "done"}

Injective(mapping) ==
    \A c1, c2 \in DOMAIN mapping : c1 # c2 => mapping[c1] # mapping[c2]

\* The fields whose normalized label equals the normalized column name.
ExactFields(column) ==
    {k \in 1..Len(formFields) :
        normalizeHeader(formFields[k].label) = normalizeHeader(column)}

\* The columns of the sheet no pair of `mapping` names, in sheet order, and
\* the fields of the catalog no pair of `mapping` names, in catalog order.
RemainingColumns(mapping) ==
    LET Open(c) == c \notin DOMAIN mapping
    IN  SelectSeq(spreadsheetColumns, Open)

RemainingFields(mapping) ==
    LET Open(f) == \A c \in DOMAIN mapping : mapping[c] # f.selector
    IN  SelectSeq(formFields, Open)

(***************************************************************************)
(* C8.  The mapping never gives two distinct columns the same field        *)
(* identifier, two columns with equal normalized names included.  Stated   *)
(* as the claim states it; the exact tier does not look at the fields      *)
(* already taken.                                                          *)
(***************************************************************************)
C8_MappingInjective ==
    AfterPartialTier => Injective(autoFieldMapping)

(***************************************************************************)
(* C9.  A column whose normalized name equals the normalized label of some *)
(* field is mapped to the first such field in catalog order, wherever a    *)
(* field whose label only contains the name stands in the catalog; the     *)
(* later tiers leave that pair alone.                                      *)
(***************************************************************************)
C9_ExactMatchWins ==
    tier \in {"partial", "positional", "done"} =>
        \A j \in 1..Len(spreadsheetColumns) :
            LET column == spreadsheetColumns[j]
                exact == ExactFields(column)
            IN  exact # {} =>
                    /\ column \in DOMAIN autoFieldMapping
                    /\ \E k \in exact :
                           /\ \A m \in exact : k <= m
                           /\ autoFieldMapping[column] = formFields[k].selector

\* Column "a" against the catalog ["b a", "A"]: the first field only
\* contains the name, the second equals it, and the column has the second.
C9_Witness ==
    /\ tier = "done"
    /\ Len(formFields) >= 2
    /\ formFields[1].label = <<"b", " ", "a">>
    /\ formFields[2].label = <<"A">>
    /\ formFields[1].selector # formFields[2].selector
    /\ <<"a">> \in DOMAIN autoFieldMapping
    /\ autoFieldMapping[<<"a">>] = formFields[2].selector

(***************************************************************************)
(* C10.  The positional tier keeps every pair the exact and substring      *)
(* tiers made, and pairs the k-th column they left unmapped (in sheet      *)
(* order) with the k-th field they left unclaimed (in catalog order), until*)
(* one of the two lists is exhausted; it maps nothing else.                *)
(***************************************************************************)
C10_PositionalTier ==
    [][tier = "positional" =>
         LET cols == RemainingColumns(autoFieldMapping)
             flds == RemainingFields(autoFieldMapping)
             m == Min(Len(cols), Len(flds))
         IN  /\ \A c \in DOMAIN autoFieldMapping :
                    /\ c \in DOMAIN autoFieldMapping'
                    /\ autoFieldMapping'[c] = autoFieldMapping[c]
             /\ DOMAIN autoFieldMapping' =
                    (DOMAIN autoFieldMapping) \cup {cols[k] : k \in 1..m}
             /\ \A k \in 1..m : autoFieldMapping'[cols[k]] = flds[k].selector]_vars

\* Columns ["c", "a", "C-"] against three distinct fields of which "a"
\* takes one by name: the positional tier has paired "c" and "C-", in that
\* order, with the two fields left.
C10_Witness ==
    /\ tier = "done"
    /\ spreadsheetColumns = <<(<<"c">>), (<<"a">>), (<<"C", "-">>)>>
    /\ Len(formFields) = 3
    /\ Injective([k \in 1..3 |-> formFields[k].selector])
    /\ unmatchedColumns = <<(<<"c">>), (<<"C", "-">>)>>
    /\ DOMAIN autoFieldMapping = {<<"c">>, <<"a">>, <<"C", "-">>}
    /\ autoFieldMapping[<<"c">>] # autoFieldMapping[<<"C", "-">>]

(***************************************************************************)
(* Notions the claims about the executors are stated in.                   *)
(***************************************************************************)
CallOver == call.pc \in {"returned", "thrown"}

Rows == 1..Len(sourceData)

Range(list) == {list[k] : k \in 1..Len(list)}

\* After applying the mapping, every mapped value of the record is empty
\* or absent.
AllMappedEmpty(record) ==
    \A c \in columnMapping : c \notin DOMAIN record \/ record[c] = ""

(***************************************************************************)
(* C11.  In the two submitToForm executors, once the target is resolved,   *)
(* every record of the batch is handed to the executor, in order, and has  *)
(* an outcome when the call is over: an exception raised for one record    *)
(* does not keep the later ones from being processed.  Stated as the claim *)
(* states it; in the simulated executor browser.newPage() is awaited       *)
(* before the record's try block.                                          *)
(***************************************************************************)
C11_RecordExceptionIsolated ==
    (strategy \in {"direct", "simulated"} /\ CallOver /\ call.error # ResolveFailed) =>
        /\ call.offered = [j \in Rows |-> j]
        /\ \A j \in Rows : j \in Range(call.errors) \/ j \in Range(call.sent)

(***************************************************************************)
(* C12.  A record whose mapped values are all empty or absent is never     *)
(* part of a request to the remote service, and the count of submitted     *)
(* records never exceeds the number of the other records.  Stated as the   *)
(* claim states it; writeToSheet counts a mapped entry as filled whatever  *)
(* its value.                                                              *)
(***************************************************************************)
C12_EmptyRecordSkipped ==
    call.pc # "idle" =>
        /\ \A j \in Rows : AllMappedEmpty(sourceData[j]) => j \notin Range(call.sent)
        /\ call.successCount <= Cardinality({j \in Rows : ~AllMappedEmpty(sourceData[j])})

(***************************************************************************)
(* C13.  When the scan of the rendered form finds no field, validateForm   *)
(* does not return: it ends with an error, whether or not the metadata     *)
(* service gave titles.  Stated as the claim states it; the code returns   *)
(* a catalog of placeholders, or an empty one.                             *)
(***************************************************************************)
C13_NoFieldsDiscovered ==
    page.elements = <<>> => resolution.pc # "returned"

(***************************************************************************)
(* C14.  A job for which target resolution has failed never shows status   *)
(* completed and has no completed batch (the claim says more: the job ends *)
(* failed and none of its batches is even created).  Stated as the claim   *)
(* states it; the code resolves the target inside writeToSheet, once per   *)
(* batch, and treats the failure as the failure of that batch.             *)
(***************************************************************************)
ResolutionFailed(id) ==
    \E k \in BatchesOf(id) : batches[k].errorMessage = ResolutionError

C14_ResolutionFailureAbortsJob ==
    \A id \in DOMAIN submissions :
        ResolutionFailed(id) =>
            /\ submissions[id].status # "completed"
            /\ \A k \in BatchesOf(id) : batches[k].status # "completed"

(***************************************************************************)
(* C15.  A job has at most one processing task that is not over, and so at *)
(* most one batch handed to the executor, whatever start-processing        *)
(* requests arrive.  Stated as the claim states it; the handler starts a   *)
(* task on every request.                                                  *)
(***************************************************************************)
LiveTasksOf(id) == {t \in TasksOf(id) : tasks[t].pc # "done"}

ExecutingTasksOf(id) == {t \in TasksOf(id) : tasks[t].pc = "writeToSheet"}

C15_SingleWriterPerJob ==
    \A id \in DOMAIN submissions :
        /\ Cardinality(LiveTasksOf(id)) <= 1
        /\ Cardinality(ExecutingTasksOf(id)) <= 1

(***************************************************************************)
(* C16.  The step in which a start-processing request is answered leaves   *)
(* the job with status processing, with no batch of the new task created   *)
(* and no batch record changed; every batch the task creates is created in *)
(* a later step.                                                           *)
(***************************************************************************)
AnswerStep(t) == ~Started(t) /\ Started(t)'

C16_ProcessingBeforeAnswerAndFirstBatch ==
    /\ [][\A t \in TaskIds :
             AnswerStep(t) =>
                 /\ submissions'[tasks'[t].submissionId].status = "processing"
                 /\ run'[t] = <<>>
                 /\ batches' = batches]_vars
    /\ [][\A t \in TaskIds : run'[t] # run[t] => Started(t)]_vars

\* A request has been answered and its task waits for the executor on its
\* first batch: the answer did not wait for the batch.
C16_Witness ==
    \E t \in TaskIds :
        /\ tasks[t].pc = "writeToSheet"
        /\ Len(run[t]) = 1
        /\ batches[run[t][1].id].status \notin {"completed", "failed"}
        /\ SubOf(t).status = "processing"

(***************************************************************************)
(* C17.  A batch with records is stored as failed only when the setup of   *)
(* the call failed (the target could not be resolved, the browser gave no  *)
(* page, the remote service refused the whole write); when the executor    *)
(* got through its records the batch is completed, however many of them    *)
(* were rejected or skipped.  Stated as the claim states it; the executors *)
(* throw on the outcome counts.                                            *)
(***************************************************************************)
SetupErrors == {ResolveFailed, NewPageFailed, AppendRefused}

C17_FailedOnlyOnSetupError ==
    (CallOver /\ sourceData # <<>> /\ call.batchStatus = "failed")
        => call.error \in SetupErrors

(***************************************************************************)
(* C18.  When the executor call of batch i throws, the batch is stored as  *)
(* failed with a non-empty error message; the task then goes on with batch *)
(* i+1, or, after the last batch, leaves the loop and writes completed;    *)
(* neither step sets the job's status to failed.                           *)
(***************************************************************************)
Stored(t) == tasks[t].batch \in DOMAIN batches

C19_BatchStatusLifecycle ==
    /\ \A t \in TaskIds :
           (tasks[t].pc = "writeToSheet" /\ Stored(t))
               => batches[tasks[t].batch].status = "processing"
    /\ \A k \in DOMAIN batches :
           batches[k].status \in {"processing", "completed", "failed"}

(***************************************************************************)
(* C21.  Every processing task that is started terminates: after finitely  *)
(* many iterations it has made its final status write and returned (under  *)
(* FairSpec).  Stated as the claim states it; with the accepted batchSize  *)
(* 0 the number of batches is Infinity.                                    *)
(***************************************************************************)
C21_TaskTerminates ==
    \A t \in TaskIds : Started(t) ~> (tasks[t].pc = "done")

(***************************************************************************)
(* C22.  No stored job has a batchSize outside 1..500.  Stated as the      *)
(* claim states it; the schema the create handler parses with has no       *)
(* bounds on batchSize.                                                    *)
(***************************************************************************)
C22_BatchSizeWithinBounds ==
    \A id \in DOMAIN submissions :
        submissions[id].batchSize >= 1 /\ submissions[id].batchSize <= 500

(***************************************************************************)
(* C23.  A task creates a batch after its first one only when the timer of *)
(* the inter-batch delay fires, whether the batch before ended completed   *)
(* or failed; and it leaves the loop without waiting for the timer.        *)
(* Stated as the claim states it; the delay is awaited inside the try      *)
(* block, after the progress write.                                        *)
(***************************************************************************)
C23_DelayBetweenBatches ==
    [][\A t \in TaskIds :
           /\ (Len(run[t]) >= 1 /\ SubOf(t).batchSize >= 1 /\ Len(run'[t]) > Len(run[t]))
                  => tasks[t].pc = "delay"
           /\ (tasks[t].pc # "finalStatus" /\ tasks'[t].pc = "finalStatus")
                  => tasks[t].pc # "delay"]_vars

\* Task t calls the executor: writeToSheet reads the headers of the target
\* (getSheetHeaders) and builds columnMapping from the keys of the first
\* record it was given, before it builds any row.
ResolvesAndMaps(t) ==
    /\ tasks[t].pc = "createBatch"
    /\ tasks'[t].pc = "writeToSheet"

(***************************************************************************)
(* C24.  A task resolves the target and computes the column mapping once,  *)
(* for its first batch; no later batch of the job makes it resolve or map  *)
(* again.                                                                  *)
(* Stated as the claim states it; writeToSheet resolves and maps in every  *)
(* call, and it is called for every batch.                                 *)
(***************************************************************************)
C24_ResolvedAndMappedOncePerJob ==
    [][\A t \in TaskIds :
           (ResolvesAndMaps(t) /\ SubOf(t).batchSize >= 1) => tasks[t].i = 0]_vars

\* The records of the batches among entries that are stored completed.
RECURSIVE SumCompletedRecords(_)
SumCompletedRecords(entries) ==
    IF entries = <<>> THEN 0
    ELSE (IF batches[Head(entries).id].status = "completed"
             THEN batches[Head(entries).id].recordsCount ELSE 0)
         + SumCompletedRecords(Tail(entries))

(***************************************************************************)
(* C29.  While the only processing run of a job with batchSize >= 1 goes   *)
(* on and after it, the processedRecords of the job is at most the sum of  *)
(* recordsCount over the batches of the job stored as completed.           *)
(* Stated as the claim states it; the progress written after batch i+1 is  *)
(* min((i+1) * batchSize, n), which counts every earlier batch, failed or  *)
(* not.                                                                    *)
(***************************************************************************)
C29_ProgressCountsCompletedOnly ==
    \A t \in TaskIds :
        (Started(t) /\ SoleRun(t) /\ SubOf(t).batchSize >= 1) =>
            SubOf(t).processedRecords <= SumCompletedRecords(run[t])

\* The loop of the executor over the records has run to its end: the call
\* is over, and it was not left before or inside the loop by an error of
\* resolution or of browser.newPage.
LoopEnded == CallOver /\ call.error \notin {ResolveFailed, NewPageFailed}

(***************************************************************************)
(* C26.  When the loop of submitToForm (direct or simulated) over a batch  *)
(* of k records has ended, successCount + failCount = k.                   *)
(* Stated as the claim states it; the simulated executor counts a record   *)
(* before it closes the page inside the try block, and its catch block     *)
(* counts the record again when closing throws.                            *)
(***************************************************************************)
C26_OneOutcomePerRecord ==
    (strategy \in {"direct", "simulated"} /\ LoopEnded) =>
        call.successCount + call.failCount = Len(sourceData)

(***************************************************************************)
(* C27.  In the simulated strategy at most one record page is open at any  *)
(* time, none is open when the page of the next record is asked for, and   *)
(* none is open when the executor is over.                                 *)
(* Stated as the claim states it; the catch block of a record ignores a    *)
(* failure of page.close() and the loop goes on to the next record.        *)
(***************************************************************************)
C27_PageClosedBeforeNext ==
    (strategy = "simulated" /\ call.pc # "idle") =>
        /\ call.pages <= 1
        /\ call.pc = "newPage" => call.pages = 0
        /\ CallOver => call.pages = 0

(***************************************************************************)
(* C30.  The catalog validateForm returns has no two fields with the same  *)
(* id.                                                                     *)
(* Stated as the claim states it; the scan keeps an element out only when  *)
(* the very same element was found by an earlier selector, and pushes one  *)
(* field per element whatever entry id it carries.                         *)
(***************************************************************************)
C30_CatalogIdsDistinct ==
    resolution.pc = "returned" =>
        \A j, k \in 1..Len(resolution.fields) :
            resolution.fields[j].id = resolution.fields[k].id => j = k

\* Task t has thrown before its loop made a batch, and the catch callback
\* of the process handler runs for it.
ThrewBeforeFirstBatch(t) ==
    /\ tasks[t].pc = "rejected"
    /\ tasks'[t].pc = "done"
    /\ run[t] = <<>>

Steps(t) == Started(t) /\ tasks'[t] # tasks[t]

(***************************************************************************)
(* C28.  Every step of the processing task of a job leaves status and      *)
(* processedRecords of every other job as they are, and every batch record *)
(* it creates or changes belongs to its own job, whatever the other tasks  *)
(* are doing.                                                              *)
(***************************************************************************)
C28_JobsIndependent ==
    [][\A t \in TaskIds :
           Steps(t) =>
               LET own == tasks[t].submissionId
               IN  /\ \A id \in DOMAIN submissions \ {own} :
                          /\ submissions'[id].status = submissions[id].status
                          /\ submissions'[id].processedRecords = submissions[id].processedRecords
                   /\ \A k \in DOMAIN batches' :
                          (k \notin DOMAIN batches \/ batches'[k] # batches[k]) =>
                              batches'[k].submissionId = own]_vars

\* Two tasks run for two different jobs, each has created a batch, and
\* one of them has written progress while the other has not.
C28_Witness ==
    \E t, u \in TaskIds :
        /\ tasks[t].submissionId # tasks[u].submissionId
        /\ InLoopBody(t) /\ InLoopBody(u)
        /\ Len(run[t]) >= 1 /\ Len(run[u]) >= 1
        /\ SubOf(t).processedRecords > 0
        /\ SubOf(u).processedRecords = 0

(***************************************************************************)
(* Notions the claim about normalizeHeader is stated in.                   *)
(***************************************************************************)
CasePairs == {<<"a", "A">>, <<"b", "B">>, <<"c", "C">>}

SameIgnoringCase(ch, dh) ==
    ch = dh \/ <<ch, dh>> \in CasePairs \/ <<dh, ch>> \in CasePairs

\* The characters of str in [A-Za-z0-9], in their order and case.
LettersAndDigits(str) ==
    LET Keep(ch) == ch \in Lower \cup Upper \cup Digits
    IN  SelectSeq(str, Keep)

\* x and y differ only in case or in characters outside [A-Za-z0-9].
DifferOnlyInCaseOrPunctuation(x, y) ==
    LET lx == LettersAndDigits(x)
        ly == LettersAndDigits(y)
    IN  /\ Len(lx) = Len(ly)
        /\ \A k \in 1..Len(lx) : SameIgnoringCase(lx[k], ly[k])

(***************************************************************************)
(* C20.  normalizeHeader is idempotent; its result holds only characters   *)
(* of [a-z0-9]; and every string that differs from the input only in case  *)
(* or in characters outside [A-Za-z0-9] has the same result.               *)
(***************************************************************************)
C20_NormalizeIdempotentInsensitive ==
    /\ Len(normalized) >= 1 =>
           /\ \A k \in 1..Len(normalized[1]) : normalized[1][k] \in Lower \cup Digits
           /\ \A y \in Headers :
                  DifferOnlyInCaseOrPunctuation(headerInput, y)
                      => normalizeHeader(y) = normalized[1]
    /\ Len(normalized) = 2 => normalized[2] = normalized[1]

\* "B-1" has been normalized twice: "b1" both times, as for "b 1".
C20_Witness ==
    /\ headerInput = <<"B", "-", "1">>
    /\ Len(normalized) = 2
    /\ normalized[1] = <<"b", "1">>
    /\ DifferOnlyInCaseOrPunctuation(headerInput, <<"b", " ", "1">>)
    /\ ~DifferOnlyInCaseOrPunctuation(headerInput, <<"b", "1", "1">>)

====
